---- MODULE Spec2Model ----
(***************************************************************************)
(* Model of netlify/functions/contacto.js: the contact-form handler        *)
(* (exports.handler), the Resend dispatcher (sendEmail) and the HTML       *)
(* escaper (escapeHtml).                                                   *)
(*                                                                         *)
(* Strings are sequences of one-character strings.  One behaviour of Spec  *)
(* is one invocation of the handler; the handler runs atomically between   *)
(* its two awaits, and the provider settles the call in flight.            *)
(* SpecEscape applies escapeHtml to every bounded text.                    *)
(***************************************************************************)
EXTENDS Integers, Sequences, FiniteSets, TLC

VARIABLES event, env, pc, response, requests, bodyParsed, keyRead, text, out, epc

vars == <<event, env, pc, response, requests, bodyParsed, keyRead, text, out, epc>>

handlerVars == <<event, env, pc, response, requests, bodyParsed, keyRead>>

escapeVars == <<text, out, epc>>

(***************************************************************************)
(* Bounds                                                                  *)
(***************************************************************************)
MaxEmailLen == 5

MaxTextLen == 3

RECURSIVE StringsUpTo(_, _)
StringsUpTo(alphabet, n) ==
  IF n = 0 THEN {<<>>}
  ELSE LET shorter == StringsUpTo(alphabet, n - 1)
       IN  shorter \cup {Append(s, c) : s \in {t \in shorter : Len(t) = n - 1}, c \in alphabet}

(***************************************************************************)
(* JavaScript values carried by the parsed body                            *)
(***************************************************************************)
Undefined == [t |-> "undefined", s |-> <<>>, n |-> 0]

Null == [t |-> "null", s |-> <<>>, n |-> 0]

Str(s) == [t |-> "string", s |-> s, n |-> 0]

Num(n) == [t |-> "number", s |-> <<>>, n |-> n]

\* a one-element array holding the string s
Arr(s) == [t |-> "array", s |-> s, n |-> 0]

\* !v
Falsy(v) ==
  CASE v.t = "undefined" -> TRUE
    [] v.t = "null" -> TRUE
    [] v.t = "string" -> v.s = <<>>
    [] v.t = "number" -> v.n = 0
    [] OTHER -> FALSE

Digits == <<"0", "1", "2", "3", "4", "5", "6", "7", "8", "9">>

\* String(v), the coercion RegExp.prototype.test applies to its argument
ToStr(v) ==
  CASE v.t = "string" -> v.s
    [] v.t = "array" -> v.s
    [] v.t = "number" -> <<Digits[v.n + 1]>>
    [] v.t = "null" -> <<"n", "u", "l", "l">>
    [] OTHER -> <<"u", "n", "d", "e", "f", "i", "n", "e", "d">>

(***************************************************************************)
(* emailRegex = /^[^\s@]+@[^\s@]+\.[^\s@]+$/ as the automaton the pattern   *)
(* denotes: states 0..5, state 5 accepting.                                *)
(***************************************************************************)
Whitespace == {" ", "\n", "\t"}

\* the character class without \s: whitespace is accepted
InClass_noSpace(c) == c # "@"

InClass(c) == c \notin Whitespace /\ c # "@"

RegexStep(q, c) ==
  CASE q = 0 -> IF InClass(c) THEN {1} ELSE {}
    [] q = 1 -> (IF InClass(c) THEN {1} ELSE {}) \cup (IF c = "@" THEN {2} ELSE {})
    [] q = 2 -> IF InClass(c) THEN {3} ELSE {}
    [] q = 3 -> (IF InClass(c) THEN {3} ELSE {}) \cup (IF c = "." THEN {4} ELSE {})
    [] q = 4 -> IF InClass(c) THEN {5} ELSE {}
    [] OTHER -> IF InClass(c) THEN {5} ELSE {}

RECURSIVE RegexRun(_, _)
RegexRun(Q, s) ==
  IF s = <<>> THEN Q
  ELSE RegexRun(UNION {RegexStep(q, Head(s)) : q \in Q}, Tail(s))

emailRegexTest(v) == 5 \in RegexRun({0}, ToStr(v))

(***************************************************************************)
(* escapeHtml: text.replace(/[&<>"']/g, (m) => map[m])                     *)
(***************************************************************************)
map ==
  [c \in {"&", "<", ">", "\"", "'"} |->
     CASE c = "&" -> <<"&", "a", "m", "p", ";">>
       [] c = "<" -> <<"&", "l", "t", ";">>
       [] c = ">" -> <<"&", "g", "t", ";">>
       [] c = "\"" -> <<"&", "q", "u", "o", "t", ";">>
       [] OTHER -> <<"&", "#", "0", "3", "9", ";">>]

\* global replace: scan from index i, copy unmatched characters, substitute
\* each match by replacement[match]; substituted text is not rescanned
RECURSIVE ReplaceAll(_, _, _, _)
ReplaceAll(s, i, matches, replacement) ==
  IF i > Len(s) THEN <<>>
  ELSE (IF s[i] \in matches THEN replacement[s[i]] ELSE <<s[i]>>)
         \o ReplaceAll(s, i + 1, matches, replacement)

\* the pattern without the single quote
escapeHtml_noApos(s) == ReplaceAll(s, 1, DOMAIN map \ {"'"}, map)

escapeHtml(s) == ReplaceAll(s, 1, DOMAIN map, map)

\* .replace(/\n/g, '<br>')
NlToBr(s) == ReplaceAll(s, 1, {"\n"}, [c \in {"\n"} |-> <<"<", "b", "r", ">">>])

\* text.replace exists only on strings; anything else throws a TypeError
HasReplace(v) == v.t = "string"

(***************************************************************************)
(* Inputs of one invocation                                                *)
(***************************************************************************)
Methods == {"POST", "OPTIONS", "GET", "DELETE"}

EmailAlphabet == {"a", "@", ".", " "}

TextAlphabet == {"a", "&", "<", ">", "\"", "'", "\n"}

Names == {Undefined, Str(<<>>), Str(<<"a">>), Str(<<"<", "&">>), Num(7)}

Emails ==
  {Undefined, Null, Num(7)}
    \cup {Str(s) : s \in StringsUpTo(EmailAlphabet, MaxEmailLen)}
    \cup {Arr(s) : s \in StringsUpTo(EmailAlphabet, MaxEmailLen)}

Messages == {Undefined, Str(<<>>), Str(<<"a", "\n", "'">>), Num(0)}

\* event.body by what JSON.parse makes of it: a SyntaxError, null, a
\* primitive (no properties), or an object with the three properties
Bodies ==
  {[kind |-> k, name |-> Undefined, email |-> Undefined, message |-> Undefined] :
     k \in {"malformed", "null", "primitive"}}
    \cup {[kind |-> "object", name |-> n, email |-> e, message |-> m] :
            n \in Names, e \in Emails, m \in Messages}

\* process.env: a variable is a string or undefined
ApiKeys == {Undefined, Str(<<>>), Str(<<"r", "e", "_", "k">>)}

NodeEnvs == {"development", "production"}

\* res.statusCode values the provider may answer with
StatusCodes == {200, 201, 299, 300, 400, 500}

(***************************************************************************)
(* Responses                                                               *)
(***************************************************************************)
NoDetails == [msg |-> "undefined", statusCode |-> 0]

NoResponse == [statusCode |-> 0, headers |-> {}, hasHeaders |-> FALSE,
               body |-> [empty |-> TRUE, error |-> "undefined", success |-> "undefined",
                         message |-> "undefined", details |-> NoDetails]]

headers ==
  {<<"Access-Control-Allow-Origin", "*">>,
   <<"Access-Control-Allow-Headers", "Content-Type">>,
   <<"Access-Control-Allow-Methods", "POST, OPTIONS">>,
   <<"Content-Type", "application/json">>}

JsonBody(error, success, message, details) ==
  [empty |-> FALSE, error |-> error, success |-> success, message |-> message,
   details |-> details]

EmptyBody ==
  [empty |-> TRUE, error |-> "undefined", success |-> "undefined",
   message |-> "undefined", details |-> NoDetails]

MethodNotAllowedResponse ==
  [statusCode |-> 405, headers |-> {}, hasHeaders |-> FALSE,
   body |-> JsonBody("Metodo no permitido", "undefined", "undefined", NoDetails)]

PreflightResponse ==
  [statusCode |-> 200, headers |-> headers, hasHeaders |-> TRUE, body |-> EmptyBody]

MissingFieldsResponse ==
  [statusCode |-> 400, headers |-> headers, hasHeaders |-> TRUE,
   body |-> JsonBody("Faltan campos requeridos", "false", "undefined", NoDetails)]

InvalidEmailResponse ==
  [statusCode |-> 400, headers |-> headers, hasHeaders |-> TRUE,
   body |-> JsonBody("Email invalido", "false", "undefined", NoDetails)]

ConfigurationResponse ==
  [statusCode |-> 500, headers |-> headers, hasHeaders |-> TRUE,
   body |-> JsonBody("Configuracion del servidor incompleta", "false", "undefined", NoDetails)]

SuccessResponse ==
  [statusCode |-> 200, headers |-> headers, hasHeaders |-> TRUE,
   body |-> JsonBody("undefined", "true", "Emails enviados correctamente", NoDetails)]

\* the catch block: details carries error.message only in development
ErrorResponse(error, nodeEnv) ==
  [statusCode |-> 500, headers |-> headers, hasHeaders |-> TRUE,
   body |-> JsonBody("Error al procesar la solicitud", "false", "undefined",
                     IF nodeEnv = "development" THEN error ELSE NoDetails)]

SyntaxError == [msg |-> "SyntaxError", statusCode |-> 0]

TypeError == [msg |-> "TypeError", statusCode |-> 0]

TransportError == [msg |-> "transport error", statusCode |-> 0]

ResendApiError(code) == [msg |-> "Resend API error", statusCode |-> code]

SendError == [msg |-> "Error al enviar uno o ambos emails", statusCode |-> 0]

(***************************************************************************)
(* sendEmail and the two email messages                                    *)
(***************************************************************************)
Operator == <<"c", "o", "n", "t", "a", "c", "t", "o", "@", "a", "u", "t", "o", "a", "i", "u", "y", ".", "c", "o", "m">>

\* the handler's first emailData: to the operator, reply-to the sender
NotificationEmail(name, email, message) ==
  [kind |-> "notification", to |-> Operator, replyTo |-> ToStr(email),
   subject |-> ToStr(name),
   html |-> <<escapeHtml(name.s), escapeHtml(email.s), NlToBr(escapeHtml(message.s))>>]

\* the handler's second emailData: to the sender, reply-to the operator
ConfirmationEmail(name, email) ==
  [kind |-> "confirmation", to |-> ToStr(email), replyTo |-> Operator,
   subject |-> <<>>,
   html |-> <<escapeHtml(name.s), escapeHtml(email.s), <<>>>>]

\* sendEmail(apiKey, emailData): one HTTPS request, promise pending
sendEmail(apiKey, emailData) ==
  [emailData |-> emailData, apiKey |-> apiKey.s, promise |-> "pending",
   statusCode |-> 0, value |-> FALSE, error |-> NoDetails]

\* only 200 counts as success
StatusOk_only200(statusCode) == statusCode = 200

\* no upper limit on the status
StatusOk_noUpper(statusCode) == statusCode >= 200

\* res.statusCode >= 200 && res.statusCode < 300
StatusOk(statusCode) == statusCode >= 200 /\ statusCode < 300

\* res.on('end'): resolve(true) or reject(new Error(...))
OnEnd(req, statusCode) ==
  IF StatusOk(statusCode)
  THEN [req EXCEPT !.statusCode = statusCode, !.promise = "resolved", !.value = TRUE]
  ELSE [req EXCEPT !.statusCode = statusCode, !.promise = "rejected",
                   !.error = ResendApiError(statusCode)]

\* req.on('error'): reject(error)
OnError(req) == [req EXCEPT !.promise = "rejected", !.error = TransportError]

(***************************************************************************)
(* exports.handler                                                         *)
(***************************************************************************)
\* GET let through as well
NotPost_letGet(httpMethod) == httpMethod \notin {"POST", "GET"}

\* event.httpMethod !== 'POST'
NotPost(httpMethod) == httpMethod # "POST"

\* the credential check left out
KeyMissing_noCheck(apiKey) == FALSE

\* !RESEND_API_KEY
KeyMissing(apiKey) == Falsy(apiKey)

\* a rejection that the handler ignores
Rejected_ignored(req) == FALSE

\* an await throws when the promise it waits for was rejected
Rejected(req) == req.promise = "rejected"

\* return <resp>
Return(resp) ==
  /\ pc' = "returned"
  /\ response' = resp

\* no try/catch: the exception leaves the handler
Catch_rethrow(error) ==
  /\ pc' = "threw"
  /\ response' = NoResponse

\* catch (error) { ... return 500 }
Catch(error) == Return(ErrorResponse(error, env.NODE_ENV))

\* from the entry of the handler to its first await or return
HandlerStart ==
  /\ pc = "start"
  /\ UNCHANGED <<event, env, escapeVars>>
  /\ IF NotPost(event.httpMethod)
     THEN /\ Return(MethodNotAllowedResponse)
          /\ UNCHANGED <<requests, bodyParsed, keyRead>>
     ELSE IF event.httpMethod = "OPTIONS"
     THEN /\ Return(PreflightResponse)
          /\ UNCHANGED <<requests, bodyParsed, keyRead>>
     ELSE /\ bodyParsed' = TRUE
          /\ IF event.body.kind = "malformed"
             THEN Catch(SyntaxError) /\ UNCHANGED <<requests, keyRead>>
             ELSE IF event.body.kind = "null"
             THEN Catch(TypeError) /\ UNCHANGED <<requests, keyRead>>
             ELSE LET name == event.body.name
                      email == event.body.email
                      message == event.body.message
                  IN  IF Falsy(name) \/ Falsy(email) \/ Falsy(message)
                      THEN Return(MissingFieldsResponse) /\ UNCHANGED <<requests, keyRead>>
                      ELSE IF ~emailRegexTest(email)
                      THEN Return(InvalidEmailResponse) /\ UNCHANGED <<requests, keyRead>>
                      ELSE /\ keyRead' = TRUE
                           /\ IF KeyMissing(env.RESEND_API_KEY)
                              THEN Return(ConfigurationResponse) /\ UNCHANGED requests
                              ELSE IF ~(HasReplace(name) /\ HasReplace(email) /\ HasReplace(message))
                              THEN Catch(TypeError) /\ UNCHANGED requests
                              ELSE /\ requests' = Append(requests,
                                         sendEmail(env.RESEND_API_KEY,
                                                   NotificationEmail(name, email, message)))
                                   /\ pc' = "await1"
                                   /\ UNCHANGED response

\* the provider answers the request in flight with a status code
ResEnd ==
  /\ requests # <<>>
  /\ requests[Len(requests)].promise = "pending"
  /\ \E statusCode \in StatusCodes :
       requests' = [requests EXCEPT ![Len(requests)] = OnEnd(@, statusCode)]
  /\ UNCHANGED <<event, env, pc, response, bodyParsed, keyRead, escapeVars>>

\* the request in flight fails at the transport level
ReqError ==
  /\ requests # <<>>
  /\ requests[Len(requests)].promise = "pending"
  /\ requests' = [requests EXCEPT ![Len(requests)] = OnError(@)]
  /\ UNCHANGED <<event, env, pc, response, bodyParsed, keyRead, escapeVars>>

\* the handler resumes after `await sendEmail(...)` of the notification
ResumeNotification ==
  /\ pc = "await1"
  /\ requests[1].promise # "pending"
  /\ UNCHANGED <<event, env, bodyParsed, keyRead, escapeVars>>
  /\ IF Rejected(requests[1])
     THEN Catch(requests[1].error) /\ UNCHANGED requests
     ELSE /\ requests' = Append(requests,
                sendEmail(env.RESEND_API_KEY,
                          ConfirmationEmail(event.body.name, event.body.email)))
          /\ pc' = "await2"
          /\ UNCHANGED response

\* the handler resumes after `await sendEmail(...)` of the confirmation
ResumeConfirmation ==
  /\ pc = "await2"
  /\ requests[2].promise # "pending"
  /\ UNCHANGED <<event, env, bodyParsed, keyRead, escapeVars, requests>>
  /\ IF Rejected(requests[2])
     THEN Catch(requests[2].error)
     ELSE LET notificationEmailSent == requests[1].value
              confirmationEmailSent == requests[2].value
          IN  IF ~notificationEmailSent \/ ~confirmationEmailSent
              THEN Catch(SendError)
              ELSE Return(SuccessResponse)

Init ==
  /\ event \in [httpMethod : Methods, body : Bodies]
  /\ env \in [RESEND_API_KEY : ApiKeys, NODE_ENV : NodeEnvs]
  /\ pc = "start"
  /\ response = NoResponse
  /\ requests = <<>>
  /\ bodyParsed = FALSE
  /\ keyRead = FALSE
  /\ text = <<>>
  /\ out = <<>>
  /\ epc = "idle"

Next ==
  \/ HandlerStart
  \/ ResEnd
  \/ ReqError
  \/ ResumeNotification
  \/ ResumeConfirmation

Spec == Init /\ [][Next]_vars

(***************************************************************************)
(* escapeHtml applied to every text of at most MaxTextLen characters       *)
(***************************************************************************)
ApplyEscape ==
  /\ epc = "ready"
  /\ out' = escapeHtml(text)
  /\ epc' = "done"
  /\ UNCHANGED <<text, handlerVars>>

InitEscape ==
  /\ text \in StringsUpTo(TextAlphabet, MaxTextLen)
  /\ out = <<>>
  /\ epc = "ready"
  /\ event = [httpMethod |-> "POST", body |-> [kind |-> "null", name |-> Undefined,
                                              email |-> Undefined, message |-> Undefined]]
  /\ env = [RESEND_API_KEY |-> Undefined, NODE_ENV |-> "production"]
  /\ pc = "idle"
  /\ response = NoResponse
  /\ requests = <<>>
  /\ bodyParsed = FALSE
  /\ keyRead = FALSE

NextEscape == ApplyEscape

SpecEscape == InitEscape /\ [][NextEscape]_vars

(***************************************************************************)
(* Vocabulary of the properties                                            *)
(***************************************************************************)
\* one or more non-space/non-@ characters, '@', the same, '.', the same
EmailShape(s) ==
  \E i, j \in 1..Len(s) :
    /\ 1 < i /\ i + 1 < j /\ j < Len(s)
    /\ s[i] = "@"
    /\ s[j] = "."
    /\ \A k \in (1..Len(s)) \ {i} : s[k] \notin Whitespace /\ s[k] # "@"

MissingOrEmpty(v) == v.t \in {"undefined", "null"} \/ (v.t = "string" /\ v.s = <<>>)

NonEmptyText(v) == v.t = "string" /\ Len(v.s) > 0

ValidSubmission ==
  /\ event.body.kind = "object"
  /\ NonEmptyText(event.body.name)
  /\ NonEmptyText(event.body.message)
  /\ NonEmptyText(event.body.email)
  /\ EmailShape(event.body.email.s)

InvalidSubmission ==
  /\ event.body.kind = "object"
  /\ \/ MissingOrEmpty(event.body.name)
     \/ MissingOrEmpty(event.body.email)
     \/ MissingOrEmpty(event.body.message)
     \/ ~EmailShape(ToStr(event.body.email))

CredentialPresent == NonEmptyText(env.RESEND_API_KEY)

CredentialAbsent == env.RESEND_API_KEY = Undefined

In2xx(code) == 200 <= code /\ code <= 299

Returned == pc = "returned"

(***************************************************************************)
(* C1: an OPTIONS invocation returns 200 with an empty body and the full   *)
(* CORS header set, before any body parsing.  Stated as claimed; the       *)
(* handler answers OPTIONS with 405 because the method check comes first.  *)
(***************************************************************************)
C1_OptionsPreflight ==
  (Returned /\ event.httpMethod = "OPTIONS") =>
    /\ response.statusCode = 200
    /\ response.body.empty
    /\ response.hasHeaders /\ response.headers = headers
    /\ ~bodyParsed

(***************************************************************************)
(* C2: every response, whatever its status, carries the four CORS and      *)
(* content-type headers.  Stated as claimed; the 405 response has none.    *)
(***************************************************************************)
C2_HeadersOnEveryResponse ==
  Returned =>
    /\ response.hasHeaders
    /\ response.headers =
         {<<"Access-Control-Allow-Origin", "*">>,
          <<"Access-Control-Allow-Headers", "Content-Type">>,
          <<"Access-Control-Allow-Methods", "POST, OPTIONS">>,
          <<"Content-Type", "application/json">>}

(***************************************************************************)
(* C3 as claimed: with the credential absent a POST returns 500 whether    *)
(* the submission is valid or not, and no outbound call is made.           *)
(***************************************************************************)
C3_Original ==
  (Returned /\ event.httpMethod = "POST" /\ CredentialAbsent) =>
    /\ response.statusCode = 500
    /\ requests = <<>>

(***************************************************************************)
(* C3 amended: with the credential absent a POST never makes an outbound   *)
(* call; it returns 500 with the generic configuration message when the    *)
(* submission is valid, and 400 when the parsed record is invalid.         *)
(***************************************************************************)
C3_Amended ==
  (event.httpMethod = "POST" /\ CredentialAbsent) =>
    /\ requests = <<>>
    /\ pc \in {"start", "returned"}
    /\ (Returned /\ ValidSubmission) =>
         /\ response.statusCode = 500
         /\ response.body.success = "false"
         /\ response.body.error = "Configuracion del servidor incompleta"
         /\ response.body.details = NoDetails
    /\ (Returned /\ InvalidSubmission) => response.statusCode = 400

C3_Witness ==
  /\ Returned /\ event.httpMethod = "POST" /\ CredentialAbsent /\ ValidSubmission
  /\ keyRead
  /\ response.statusCode = 500

(***************************************************************************)
(* C4: a request whose method is neither POST nor OPTIONS gets 405 and no  *)
(* further processing: no body parsing, no credential read, no outbound    *)
(* call.                                                                   *)
(***************************************************************************)
C4_MethodNotAllowed ==
  (event.httpMethod \notin {"POST", "OPTIONS"}) =>
    /\ pc \in {"start", "returned"}
    /\ Returned => response.statusCode = 405
    /\ ~bodyParsed
    /\ ~keyRead
    /\ requests = <<>>

C4_Witness ==
  /\ Returned /\ event.httpMethod = "DELETE" /\ response.statusCode = 405
  /\ event.body.kind = "object" /\ NonEmptyText(event.body.email)
  /\ EmailShape(event.body.email.s)

(***************************************************************************)
(* C5: a POST whose body parses to a record with name, email or message    *)
(* missing or empty, or with an email not of the shape x@y.z, returns 400  *)
(* with success: false.                                                    *)
(***************************************************************************)
C5_BadRequest ==
  (event.httpMethod = "POST" /\ InvalidSubmission) =>
    /\ pc \in {"start", "returned"}
    /\ Returned =>
         /\ response.statusCode = 400
         /\ response.body.success = "false"

C5_Witness ==
  /\ Returned /\ event.httpMethod = "POST" /\ event.body.kind = "object"
  /\ NonEmptyText(event.body.name) /\ NonEmptyText(event.body.message)
  /\ NonEmptyText(event.body.email)
  /\ Len(event.body.email.s) = MaxEmailLen
  /\ \E i \in 1..MaxEmailLen : event.body.email.s[i] = "@"
  /\ \E i \in 1..MaxEmailLen : event.body.email.s[i] = "."
  /\ ~EmailShape(event.body.email.s)
  /\ response.statusCode = 400

(***************************************************************************)
(* C6: for a valid submission with the credential present, a provider call *)
(* that ends with a non-2xx status or a transport error makes the handler  *)
(* return 500 with success: false, and no exception leaves the handler.    *)
(***************************************************************************)
CallFailed(req) ==
  \/ req.promise # "pending" /\ req.statusCode # 0 /\ ~In2xx(req.statusCode)
  \/ req.error = TransportError

C6_ProviderFailure ==
  (event.httpMethod = "POST" /\ ValidSubmission /\ CredentialPresent) =>
    /\ pc # "threw"
    /\ (\E i \in DOMAIN requests : CallFailed(requests[i])) =>
         /\ pc \in {"await1", "await2", "returned"}
         /\ Returned =>
              /\ response.statusCode = 500
              /\ response.body.success = "false"

C6_Witness ==
  /\ Returned /\ event.httpMethod = "POST" /\ ValidSubmission /\ CredentialPresent
  /\ Len(requests) = 2
  /\ In2xx(requests[1].statusCode)
  /\ CallFailed(requests[2])
  /\ response.statusCode = 500

(***************************************************************************)
(* C7: for a valid submission with the credential present, if every        *)
(* provider call answers with a status in [200, 300), the handler returns  *)
(* 200 with success: true.                                                 *)
(***************************************************************************)
C7_Success ==
  (/\ Returned /\ event.httpMethod = "POST" /\ ValidSubmission /\ CredentialPresent
   /\ \A i \in DOMAIN requests : In2xx(requests[i].statusCode)) =>
    /\ response.statusCode = 200
    /\ response.body.success = "true"

C7_Witness ==
  /\ Returned /\ event.httpMethod = "POST" /\ ValidSubmission /\ CredentialPresent
  /\ Len(requests) = 2
  /\ requests[1].statusCode = 201
  /\ requests[2].statusCode = 299
  /\ response.statusCode = 200

(***************************************************************************)
(* C8: escapeHtml replaces exactly & < > " ' by &amp; &lt; &gt; &quot;     *)
(* &#039; and leaves every other character unchanged; its output has no    *)
(* raw < > " or ', text without the five characters comes back unchanged,  *)
(* and escape("<script>a&b</script>") is                                   *)
(* "&lt;script&gt;a&amp;b&lt;/script&gt;".                                 *)
(***************************************************************************)
Entity(c) ==
  CASE c = "&" -> <<"&", "a", "m", "p", ";">>
    [] c = "<" -> <<"&", "l", "t", ";">>
    [] c = ">" -> <<"&", "g", "t", ";">>
    [] c = "\"" -> <<"&", "q", "u", "o", "t", ";">>
    [] c = "'" -> <<"&", "#", "0", "3", "9", ";">>
    [] OTHER -> <<c>>

RECURSIVE Entities(_)
Entities(s) == IF s = <<>> THEN <<>> ELSE Entity(Head(s)) \o Entities(Tail(s))

ScriptText ==
  <<"<", "s", "c", "r", "i", "p", "t", ">", "a", "&", "b", "<", "/", "s",
    "c", "r", "i", "p", "t", ">">>

ScriptEscaped ==
  <<"&", "l", "t", ";", "s", "c", "r", "i", "p", "t", "&", "g", "t", ";",
    "a", "&", "a", "m", "p", ";", "b", "&", "l", "t", ";", "/", "s", "c",
    "r", "i", "p", "t", "&", "g", "t", ";">>

HelloText == <<"h", "e", "l", "l", "o">>

C8_EscapeHtml ==
  /\ epc = "done" =>
       /\ out = Entities(text)
       /\ \A i \in DOMAIN out : out[i] \notin {"<", ">", "\"", "'"}
       /\ (\A i \in DOMAIN text : text[i] \notin {"&", "<", ">", "\"", "'"}) => out = text
  /\ escapeHtml(ScriptText) = ScriptEscaped
  /\ escapeHtml(HelloText) = HelloText

C8_Witness ==
  /\ epc = "done"
  /\ text = <<"'", "a", "&">>
  /\ out = <<"&", "#", "0", "3", "9", ";", "a", "&", "a", "m", "p", ";">>

(***************************************************************************)
(* C9: the outbound calls of one invocation are sequential and never       *)
(* retried: the confirmation is dispatched only after the notification     *)
(* call has succeeded, the two calls are never in flight together, a       *)
(* failed notification ends the invocation without a confirmation call,    *)
(* and there are at most two outbound calls.                               *)
(***************************************************************************)
C9_Sequential ==
  /\ Len(requests) <= 2
  /\ Cardinality({i \in DOMAIN requests : requests[i].promise = "pending"}) <= 1
  /\ \A i \in DOMAIN requests :
       requests[i].emailData.kind = (IF i = 1 THEN "notification" ELSE "confirmation")
  /\ Len(requests) >= 2 => requests[1].promise = "resolved"
  /\ (requests # <<>> /\ requests[1].promise = "rejected") =>
       /\ Len(requests) = 1
       /\ pc \in {"await1", "returned"}
  /\ (Returned /\ requests # <<>>) => requests[Len(requests)].promise # "pending"

C9_Witness ==
  /\ pc = "await2"
  /\ Len(requests) = 2
  /\ requests[1].promise = "resolved"
  /\ requests[2].promise = "pending"
  /\ requests[2].emailData.to = event.body.email.s

(***************************************************************************)
(* C10: the handler answers a POST with 200 and success: true only if      *)
(* exactly two outbound calls were made, notification then confirmation,   *)
(* and both ended with a status in [200, 300); never after a validation    *)
(* failure, a missing credential or a failed call.                         *)
(***************************************************************************)
C10_SuccessOnlyAfterBoth ==
  (Returned /\ event.httpMethod = "POST"
     /\ (response.statusCode = 200 \/ response.body.success = "true")) =>
    /\ response.statusCode = 200 /\ response.body.success = "true"
    /\ Len(requests) = 2
    /\ requests[1].emailData.kind = "notification"
    /\ requests[2].emailData.kind = "confirmation"
    /\ In2xx(requests[1].statusCode)
    /\ In2xx(requests[2].statusCode)
    /\ ~InvalidSubmission
    /\ event.body.kind = "object"
    /\ ~Falsy(env.RESEND_API_KEY)
    /\ \A i \in DOMAIN requests : ~CallFailed(requests[i])

C10_Witness ==
  /\ Returned /\ event.httpMethod = "POST"
  /\ response.statusCode = 200 /\ response.body.success = "true"
  /\ Len(requests) = 2
  /\ requests[1].statusCode = 200
  /\ requests[2].statusCode = 200
  /\ env.NODE_ENV = "production"

====
